---- MODULE Spec2Model ----
(***************************************************************************)
(* A model of mapper.py: the call-graph mapper.  Search.__init__ runs      *)
(* crawl_files (definition collection, with import crawling), then         *)
(* process_files (call-site resolution, then get_nx_graph).                *)
(*                                                                         *)
(* The graph is the dict Search.graph, kept here as the sequence of its    *)
(* values in insertion order (the order `for n in self.search.graph`       *)
(* iterates in).  A FuncNode is a record; the members of its _dependencies *)
(* and _dependents sets are the FuncNode objects that were added, kept as  *)
(* the record Ref(object) of the object's identity triple and _depth.      *)
(***************************************************************************)
EXTENDS Naturals, Sequences, FiniteSets, TLC

VARIABLES
    args,             \* Search.args: filename (list), built_ins, inverse
    disk,             \* the files that exist: file name -> module body
    tree,             \* Search.tree: file name -> parsed module body
    files,            \* Search.files
    graph,            \* Search.graph, values in insertion order
    crawled_imports,  \* Search.crawled_imports
    uncrawled,        \* Search.uncrawled
    unsure_nodes,     \* Search.unsure_nodes
    nxg,              \* Search.nxg: [nodes, edges], or NoGraph before get_nx_graph
    pc,               \* the statement of Search.__init__ that runs next
    arg_index,        \* crawl_files: index into args.filename of the next name
    file_index,       \* process_files: index into files of the file being visited
    current_function, \* EdgeDetector.current_function at module level
    calls_seen,       \* number of call expressions visited so far in the run
    last_call,        \* record of the most recent visit_Call that reached add_edge
    unresolved_names, \* history: target names that found no candidate in the graph
    resolved_before,  \* history: TRUE once a visit_Call has run
    collected_after,  \* history: TRUE if a collection step ran after a visit_Call
    crawl,            \* the crawl_import call in progress, when its attempts are
                      \* followed one by one: reference, folders, folder_index
    report            \* the lines output_text has printed, one per node

vars == <<args, disk, tree, files, graph, crawled_imports, uncrawled,
          unsure_nodes, nxg, pc, arg_index, file_index, current_function,
          calls_seen, last_call, unresolved_names, resolved_before,
          collected_after, crawl, report>>

-----------------------------------------------------------------------------
(* Bounds of the model. *)

\* Most call expressions visited in one run.
MaxCalls == 2

-----------------------------------------------------------------------------
(* FuncNode *)

\* FuncNode.__init__
FuncNode(filename, class_name, name, depth) ==
    [filename |-> filename, class_name |-> class_name, name |-> name,
     depth |-> depth, dependencies |-> {}, dependents |-> {}]

\* The identity triple that __eq__ compares and __hash__ hashes.
Key(n) == <<n.filename, n.class_name, n.name>>

\* A FuncNode object as a member of another node's edge set.
Ref(n) == [filename |-> n.filename, class_name |-> n.class_name,
           name |-> n.name, depth |-> n.depth]

\* FuncNode.get_string
get_string(n) == n.filename \o n.class_name \o n.name

\* FuncNode.is_identifier
is_identifier(n, identifier) ==
    n.filename = identifier \/ n.class_name = identifier \/ n.filename = identifier

\* FuncNode.is_secondary
is_secondary(n) == n.depth > 0

\* FuncNode.is_hidden
is_hidden(n) == n.depth > 0 /\ n.dependencies = {} /\ n.dependents = {}

\* set.add on a set of FuncNode objects: an object equal (by triple) to a member
\* is not added, the member stays.
SetAdd(s, obj) ==
    IF \E e \in s : Key(e) = Key(obj) THEN s ELSE s \cup {Ref(obj)}

\* FuncNode.add_edge
node_add_edge(n, edge, dependency) ==
    IF dependency
    THEN [n EXCEPT !.dependencies = SetAdd(@, edge)]
    ELSE [n EXCEPT !.dependents = SetAdd(@, edge)]

\* FuncNode.get_edges
get_edges(n, dependency) == IF dependency THEN n.dependencies ELSE n.dependents

-----------------------------------------------------------------------------
(* Search.graph *)

\* `node in self.search.graph`
InGraph(g, node) == \E i \in 1..Len(g) : Key(g[i]) = Key(node)

\* The position of the entry `self.search.graph[node]`.
IndexOf(g, node) == CHOOSE i \in 1..Len(g) : Key(g[i]) = Key(node)

\* ASTParser.add_node, with the duplicate check left out.
add_node_unchecked(g, node) == Append(g, node)

\* ASTParser.add_node
add_node(g, node) == IF InGraph(g, node) THEN g ELSE Append(g, node)

-----------------------------------------------------------------------------
(* The inputs: the files on disk, their syntax trees, the importable modules *)

NoId == "<no id>"
NoFile == "<no file>"
ImportError == "<ImportError>"
NoGraph == [nodes |-> {}, edges |-> {}, built |-> FALSE]
NoCall == [visited |-> FALSE]
NoCrawl == [done |-> TRUE]
\* A command-line flag is an input fixed by get_input.  The model keeps the set
\* of values it may have, BOOLEAN until the run first reads it, and draws the
\* value at that read: the same runs as drawing it at get_input.
Unread == BOOLEAN

\* Syntax-tree statements, in the shape ast gives them.
Import(name) == [kind |-> "Import", name |-> name, body |-> <<>>]
FunctionDef(name, body) == [kind |-> "FunctionDef", name |-> name, body |-> body]
ClassDef(name, body) == [kind |-> "ClassDef", name |-> name, body |-> body]

\* The names a command line may give.  a.py exists, b.py may exist.
FileNames == {"a.py", "b.py"}
Disks == {{"a.py", "b.py"}, {"a.py"}}

\* ASTParser.__init__: self.directory.split(os.sep) of a requested file.  Every
\* requested file lies in the directory pkg/ under the working directory.
Folders(file) == <<"pkg", "">>

\* importlib.import_module(imported_name).__file__ : the file of the module, NoFile
\* for a module without __file__ (a built-in one), ImportError when none is found.
import_module(imported_name, dsk) ==
    CASE imported_name = "pkg.a" /\ "a.py" \in DOMAIN dsk -> "a.py"
      [] imported_name = "pkg.b" /\ "b.py" \in DOMAIN dsk -> "b.py"
      [] imported_name = "sys" -> NoFile
      [] imported_name = "b" /\ "site/b.py" \in DOMAIN dsk -> "site/b.py"
      [] imported_name = "top.pkg.b" /\ "top/pkg/b.py" \in DOMAIN dsk -> "top/pkg/b.py"
      [] imported_name = "pkg.sys" /\ "sys.py" \in DOMAIN dsk -> "sys.py"
      [] OTHER -> ImportError

\* ASTParser.__init__, line 331: the file name without its directories.
Basename(file) ==
    CASE file = "site/b.py" -> "b.py"
      [] file = "top/pkg/b.py" -> "b.py"
      [] OTHER -> file

\* dir(__builtins__), as far as the call targets of the model go.
Builtins == {"len"}

\* The statements a file of the model is made of.
Stmts(file) ==
    IF file = "a.py"
    THEN {Import("b"), FunctionDef("f", <<>>),
          ClassDef("C", <<FunctionDef("f", <<>>)>>)}
    ELSE {FunctionDef("f", <<>>), FunctionDef("g", <<>>)}

\* Most statements at the top level of a file.
MaxStmts == 2

\* The module bodies a file may hold: its statements are distinct.
Bodies(file) ==
    {b \in UNION {[1..n -> Stmts(file)] : n \in 0..MaxStmts} :
        \A i, j \in 1..Len(b) : i # j => b[i] # b[j]}

\* The command lines: one or more names, each given once.
CommandLines ==
    {s \in UNION {[1..n -> FileNames] : n \in 1..Cardinality(FileNames)} :
        \A i, j \in 1..Len(s) : i # j => s[i] # s[j]}

-----------------------------------------------------------------------------
(* NodeCreator: definition collection and import crawling *)

\* What a NodeCreator changes: the graph and the two import diagnostics.
Collected(g, c, u) == [graph |-> g, crawled_imports |-> c, uncrawled |-> u]

\* crawl_import, lines 371-377: the dotted prefix built from the last
\* folder_index - 1 folders before the trailing empty one (Python indexes from 0).
RECURSIVE FolderPrefix(_, _)
FolderPrefix(folders, x) ==
    IF x < Len(folders) - 1
    THEN (IF folders[x + 1] # "" THEN folders[x + 1] \o "." ELSE "")
             \o FolderPrefix(folders, x + 1)
    ELSE ""

\* ImportedName, with the folders taken from the top: the longest path first.
ImportedNameLongestFirst(reference, folders, folder_index) ==
    FolderPrefix(folders, folder_index) \o reference

\* crawl_import, lines 371-377: imported_name.
ImportedName(reference, folders, folder_index) ==
    FolderPrefix(folders, Len(folders) - folder_index) \o reference

RECURSIVE visit(_, _, _, _, _, _, _)
RECURSIVE crawl_import(_, _, _, _, _, _)

\* NodeCreator.crawl_import
crawl_import(reference, folders, folder_index, recursive, st, dsk) ==
    LET imported_name == ImportedName(reference, folders, folder_index)
        imported == import_module(imported_name, dsk)
    IN  IF imported = ImportError
        THEN IF folder_index < Len(folders)
             THEN crawl_import(reference, folders, folder_index + 1, recursive, st, dsk)
             ELSE [st EXCEPT !.uncrawled = @ \cup {reference}]
        ELSE IF imported = NoFile
        THEN [st EXCEPT !.uncrawled = @ \cup {reference}]
        ELSE LET done == visit(dsk[imported], Basename(imported), "", <<>>,
                               recursive + 1, st, dsk)
             IN  [done EXCEPT !.crawled_imports = @ \cup {imported_name}]

\* NodeCreator.visit over a list of statements: visit_Import, visit_ClassDef with
\* add_class_node, visit_FunctionDef with add_function_node, each followed by
\* generic_visit of the statement's body.  handle_node sets current_class (or
\* current_function) for the body and restores it afterwards.
visit(stmts, current_filename, current_class, folders, recursive, st, dsk) ==
    IF stmts = <<>> THEN st
    ELSE
      LET s == Head(stmts)
          after ==
            CASE s.kind = "Import" ->
                   IF recursive < 1
                   THEN crawl_import(s.name, folders, 0, recursive, st, dsk)
                   ELSE st
              [] s.kind = "ClassDef" ->
                   visit(s.body, current_filename, s.name, folders, recursive,
                         [st EXCEPT !.graph =
                             add_node(@, FuncNode(current_filename, s.name,
                                                  "__init__", recursive))],
                         dsk)
              [] OTHER ->
                   visit(s.body, current_filename, current_class, folders, recursive,
                         [st EXCEPT !.graph =
                             add_node(@, FuncNode(current_filename, current_class,
                                                  s.name, recursive))],
                         dsk)
      IN  visit(Tail(stmts), current_filename, current_class, folders, recursive,
                after, dsk)

-----------------------------------------------------------------------------
(* Search *)

Init ==
    /\ args \in [filename : CommandLines, built_ins : {Unread}, inverse : {Unread}]
    /\ disk \in UNION {[d -> UNION {Bodies(f) : f \in d}] : d \in Disks}
    /\ \A f \in DOMAIN disk : disk[f] \in Bodies(f)
    /\ tree = <<>>
    /\ files = <<>>
    /\ graph = <<>>
    /\ crawled_imports = {}
    /\ uncrawled = {}
    /\ unsure_nodes = {}
    /\ nxg = NoGraph
    /\ pc = "crawl_files"
    /\ arg_index = 1
    /\ file_index = 0
    /\ current_function = ""
    /\ calls_seen = 0
    /\ last_call = NoCall
    /\ unresolved_names = {}
    /\ resolved_before = FALSE
    /\ collected_after = FALSE
    /\ crawl = NoCrawl
    /\ report = <<>>

\* crawl_files, lines 73-77 and append_graph: one requested file that exists is
\* parsed and collected, with the modules its imports crawl.
AppendGraph ==
    /\ pc = "crawl_files"
    /\ arg_index <= Len(args.filename)
    /\ LET file == args.filename[arg_index]
       IN  /\ file \in DOMAIN disk
           /\ LET done == visit(disk[file], file, "", Folders(file), 0,
                                Collected(graph, crawled_imports, uncrawled), disk)
              IN  /\ graph' = done.graph
                  /\ crawled_imports' = done.crawled_imports
                  /\ uncrawled' = done.uncrawled
           /\ tree' = (file :> disk[file]) @@ tree
           /\ files' = Append(files, file)
    /\ arg_index' = arg_index + 1
    /\ collected_after' = (collected_after \/ resolved_before)
    /\ UNCHANGED <<args, disk, unsure_nodes, nxg, pc, file_index, current_function,
                   calls_seen, last_call, unresolved_names, resolved_before, crawl,
                   report>>

\* crawl_files, lines 78-79: a requested name that is no file is reported and skipped.
FileNotFound ==
    /\ pc = "crawl_files"
    /\ arg_index <= Len(args.filename)
    /\ args.filename[arg_index] \notin DOMAIN disk
    /\ arg_index' = arg_index + 1
    /\ UNCHANGED <<args, disk, tree, files, graph, crawled_imports, uncrawled,
                   unsure_nodes, nxg, pc, file_index, current_function, calls_seen,
                   last_call, unresolved_names, resolved_before, collected_after,
                   crawl,
                   report>>


-----------------------------------------------------------------------------
(* EdgeDetector: call-site resolution *)

\* A call expression with the class and function that enclose it ("" for none):
\* func is a Name (value_id = NoId, form "Name"), or an Attribute whose value is
\* a Name (value_id its id) or something else (value_id = NoId).
Call(class_name, function, form, value_id, name) ==
    [class_name |-> class_name, function |-> function, form |-> form,
     value_id |-> value_id, name |-> name]

\* The (class, function) scopes of a syntax tree in which a call may stand:
\* the module level and every function.
RECURSIVE Scopes(_, _)
Scopes(stmts, current_class) ==
    IF stmts = <<>> THEN {}
    ELSE LET s == Head(stmts)
         IN  (CASE s.kind = "ClassDef" -> Scopes(s.body, s.name)
                [] s.kind = "FunctionDef" ->
                     {<<current_class, s.name>>} \cup Scopes(s.body, current_class)
                [] OTHER -> {})
             \cup Scopes(Tail(stmts), current_class)

\* The call expressions a file may hold, by the class and function around them.
\* a.py calls g(), C() and len() at its module level, f(), g() and C.f() inside a
\* function, f() and <expression>.f() inside a method; b.py calls f().
CallForms(file, class_name, function) ==
    IF file # "a.py" THEN {<<"Name", NoId, "f">>}
    ELSE IF function = ""
    THEN {<<"Name", NoId, "g">>, <<"Name", NoId, "C">>, <<"Name", NoId, "len">>}
    ELSE IF class_name = ""
    THEN {<<"Name", NoId, "f">>, <<"Name", NoId, "g">>, <<"Attribute", "C", "f">>}
    ELSE {<<"Name", NoId, "f">>, <<"Attribute", NoId, "f">>}
CallsOf(file, body) ==
    UNION {{Call(sc[1], sc[2], cf[1], cf[2], cf[3]) : cf \in CallForms(file, sc[1], sc[2])} :
           sc \in {<<"", "">>} \cup Scopes(body, "")}

\* visit_Call, lines 423-436: the name called.
Dependency(call) == call.name

\* visit_Call, lines 423-436: the qualifier.
Home(call, current_filename) ==
    IF call.form = "Attribute"
    THEN IF call.value_id # NoId THEN call.value_id ELSE call.class_name
    ELSE current_filename

\* visit_Call, line 448: n is a candidate for the name called.
IsCandidate(n, dependency) ==
    n.name = dependency \/ (n.name = "__init__" /\ n.class_name = dependency)

\* The search state of the loop of visit_Call: the index in the graph of
\* dependency_node (0 for None), already_found, and whether the loop added the
\* call site to unsure_nodes.
NoneFound == [dependency_node |-> 0, already_found |-> FALSE, unsure |-> FALSE]

\* SearchStep, with the first candidate found always kept.
SearchStepKeepFirst(g, i, dependency, home, sel) ==
    IF ~IsCandidate(g[i], dependency) THEN sel
    ELSE IF sel.already_found
    THEN IF ~is_identifier(g[i], home) /\ is_identifier(g[sel.dependency_node], home)
         THEN sel
         ELSE [sel EXCEPT !.unsure = TRUE]
    ELSE [sel EXCEPT !.dependency_node = i, !.already_found = TRUE]

\* SearchStep, with a conflict reported only when both nodes match the qualifier.
SearchStepBothMatch(g, i, dependency, home, sel) ==
    IF ~IsCandidate(g[i], dependency) THEN sel
    ELSE IF sel.already_found
    THEN LET n_is == is_identifier(g[i], home)
             first == IF n_is /\ ~is_identifier(g[sel.dependency_node], home)
                      THEN i ELSE sel.dependency_node
         IN  IF n_is /\ is_identifier(g[sel.dependency_node], home)
             THEN [sel EXCEPT !.dependency_node = first, !.unsure = TRUE]
             ELSE [sel EXCEPT !.dependency_node = first]
    ELSE [sel EXCEPT !.dependency_node = i, !.already_found = TRUE]

\* SearchStep, with only the nodes that match the qualifier taken as candidates.
SearchStepQualifiedOnly(g, i, dependency, home, sel) ==
    IF ~(IsCandidate(g[i], dependency) /\ is_identifier(g[i], home)) THEN sel
    ELSE IF sel.already_found
    THEN [sel EXCEPT !.unsure = TRUE]
    ELSE [sel EXCEPT !.dependency_node = i, !.already_found = TRUE]

\* visit_Call, lines 448-462: one iteration of the loop, on the node g[i].
SearchStep(g, i, dependency, home, sel) ==
    IF ~IsCandidate(g[i], dependency) THEN sel
    ELSE IF sel.already_found
    THEN LET n_is == is_identifier(g[i], home)
             first == IF n_is /\ ~is_identifier(g[sel.dependency_node], home)
                      THEN i ELSE sel.dependency_node
         IN  IF ~n_is /\ is_identifier(g[first], home)
             THEN [sel EXCEPT !.dependency_node = first]
             ELSE [sel EXCEPT !.dependency_node = first, !.unsure = TRUE]
    ELSE [sel EXCEPT !.dependency_node = i, !.already_found = TRUE]

\* visit_Call, lines 447-462: the loop over the first k nodes of the graph.
RECURSIVE Search(_, _, _, _)
Search(g, k, dependency, home) ==
    IF k = 0 THEN NoneFound
    ELSE LET sel == Search(g, k - 1, dependency, home)
         IN  SearchStep(g, k, dependency, home, sel)

\* visit_Call, line 458: the call site as unsure_nodes names it.
CallSite(current_filename, function, dependency) ==
    current_filename \o ":" \o function \o "(" \o dependency \o ")"

\* Placeholder, with the name of the target left out of the fabricated node.
PlaceholderUnnamed(is_built_in, dependency) ==
    IF is_built_in
    THEN FuncNode("System", "Builtins", "", 1)
    ELSE FuncNode("Unknown", "Unknown", "", 1)

\* add_edge, lines 484-491: the node fabricated for a name no node matches.
Placeholder(is_built_in, dependency) ==
    IF is_built_in
    THEN FuncNode("System", "Builtins", dependency, 1)
    ELSE FuncNode("Unknown", "Unknown", dependency, 1)

\* LinkNodes, with line 499 left out: the callee does not learn its caller.
LinkNodesOneWay(g, this_node, dependency_node) ==
    [g EXCEPT ![IndexOf(g, this_node)] = node_add_edge(@, dependency_node, TRUE)]

\* add_edge, lines 498-499: the two entries of the graph get the edge.
LinkNodes(g, this_node, dependency_node) ==
    LET i == IndexOf(g, this_node)
        g1 == [g EXCEPT ![i] = node_add_edge(@, dependency_node, TRUE)]
        j == IndexOf(g1, dependency_node)
    IN  [g1 EXCEPT ![j] = node_add_edge(@, this_node, FALSE)]

\* EdgeDetector.add_edge, given the node found (or the placeholder made).
add_edge(g, this_node, dependency_node) ==
    LinkNodes(add_node(add_node(g, this_node), dependency_node),
              this_node, dependency_node)

\* CrawlFilesDone, for a run that resolves calls while files are still to collect.
CrawlFilesInterleaved == TRUE

\* Search.__init__, lines 28-29: process_files starts when crawl_files has
\* gone through every name of the command line.
CrawlFilesDone == arg_index > Len(args.filename)

\* process_files, lines 91-92: the EdgeDetector of the next file is made.
NewDetector ==
    /\ CrawlFilesDone
    /\ pc \in {"crawl_files", "process_files"}
    /\ file_index < Len(files)
    /\ pc' = "process_files"
    /\ file_index' = file_index + 1
    /\ current_function' = ""
    /\ UNCHANGED <<args, disk, tree, files, graph, crawled_imports, uncrawled,
                   unsure_nodes, nxg, arg_index, calls_seen, last_call,
                   unresolved_names, resolved_before, collected_after, crawl,
                   report>>

\* EdgeDetector.visit_Call with add_edge, for one call expression of the file
\* being visited.  No node of the graph has the call as its ast_node (each file
\* is visited once), so this_node is always the node made at lines 471-475.
VisitCall ==
    /\ pc = "process_files"
    /\ file_index >= 1
    /\ calls_seen < MaxCalls
    /\ \E call \in CallsOf(files[file_index], tree[files[file_index]]) :
         LET current_filename == files[file_index]
             dependency == Dependency(call)
             home == Home(call, current_filename)
             is_built_in == dependency \in Builtins
             function == IF call.function = "" THEN current_function
                         ELSE call.function
             sel == Search(graph, Len(graph), dependency, home)
             caller == IF function = "" THEN "__main__" ELSE function
             this_node == FuncNode(current_filename, call.class_name, caller, 0)
             dependency_node ==
                 IF sel.dependency_node = 0
                 THEN Placeholder(is_built_in, dependency)
                 ELSE graph[sel.dependency_node]
         IN  \* line 443 reads args.built_ins for a built-in name only
             \E built_ins \in (IF is_built_in THEN args.built_ins ELSE {TRUE}) :
             IF is_built_in /\ ~built_ins
             THEN /\ args' = [args EXCEPT !.built_ins = {built_ins}]
                  /\ UNCHANGED <<graph, unsure_nodes, current_function, last_call,
                                 unresolved_names>>
             ELSE /\ args' = IF is_built_in
                             THEN [args EXCEPT !.built_ins = {built_ins}] ELSE args
                  /\ graph' = add_edge(graph, this_node, dependency_node)
                  /\ unsure_nodes' =
                       IF sel.unsure
                       THEN unsure_nodes \cup
                              {CallSite(current_filename, function, dependency)}
                       ELSE unsure_nodes
                  /\ current_function' =
                       IF call.function = "" THEN "__main__" ELSE current_function
                  /\ unresolved_names' =
                       IF sel.dependency_node = 0
                       THEN unresolved_names \cup {dependency}
                       ELSE unresolved_names
                  /\ last_call' =
                       [visited |-> TRUE, dependency |-> dependency, home |-> home,
                        searched |-> Len(graph), unsure |-> sel.unsure,
                        site |-> CallSite(current_filename, function, dependency),
                        this_node |-> Key(this_node),
                        dependency_node |-> Key(dependency_node)]
    /\ calls_seen' = calls_seen + 1
    /\ resolved_before' = TRUE
    /\ UNCHANGED <<disk, tree, files, crawled_imports, uncrawled, nxg, pc,
                   arg_index, file_index, collected_after, crawl,
                   report>>

\* get_nx_graph, lines 139-141: the nodes added as nodes.
NxNodes(g) == {Key(g[i]) : i \in {k \in 1..Len(g) : ~is_secondary(g[k])}}

\* get_nx_graph, lines 142-149: the edges added; edge is the object held in the
\* node's set of dependents.
NxEdges(g, inverse) ==
    UNION {{IF ~inverse THEN <<Key(g[i]), Key(edge)>> ELSE <<Key(edge), Key(g[i])>> :
              edge \in {e \in get_edges(g[i], FALSE) : ~is_secondary(e)}} :
           i \in {k \in 1..Len(g) : ~is_secondary(g[k])}}

\* Search.get_nx_graph; networkx's add_edge adds the two ends as nodes too.
get_nx_graph(g, inverse) ==
    LET edges == NxEdges(g, inverse)
    IN  [nodes |-> NxNodes(g) \cup {e[1] : e \in edges} \cup {e[2] : e \in edges},
         edges |-> edges, built |-> TRUE]

\* process_files, line 94: after the last file, the reduced graph is built.
GetNxGraph ==
    /\ CrawlFilesDone
    /\ pc \in {"crawl_files", "process_files"}
    /\ file_index = Len(files)
    /\ \E inverse \in (IF NxEdges(graph, FALSE) # {} THEN args.inverse ELSE {FALSE}) :
         \* line 146 reads args.inverse when an edge is added
         /\ args' = IF NxEdges(graph, FALSE) # {}
                    THEN [args EXCEPT !.inverse = {inverse}] ELSE args
         /\ nxg' = get_nx_graph(graph, inverse)
    /\ pc' = "output_text"
    /\ UNCHANGED <<disk, tree, files, graph, crawled_imports, uncrawled,
                   unsure_nodes, arg_index, file_index, current_function,
                   calls_seen, last_call, unresolved_names, resolved_before,
                   collected_after, crawl,
                   report>>

Next == AppendGraph \/ FileNotFound \/ NewDetector \/ VisitCall \/ GetNxGraph

Spec == Init /\ [][Next]_vars

-----------------------------------------------------------------------------
(* One crawl_import call, followed attempt by attempt: the import statement  *)
(* of a requested file a.py, with the modules the import system may find.    *)

\* The names the import statement may give.
References == {"b", "sys", "c"}

\* self.directory.split(os.sep) of the requested file: it lies in the working
\* directory, in pkg/ or in top/pkg/.
CrawlFolders == {<<"">>, <<"pkg", "">>, <<"top", "pkg", "">>}

\* The module files that may be there: of b, pkg.b, top.pkg.b and pkg.sys.
ModuleFiles == {"site/b.py", "b.py", "top/pkg/b.py", "sys.py"}

\* visit_Import, lines 365-367, has called crawl_import with folder_index 0
\* while append_graph collects a.py; nothing is in the graph yet.
InitCrawl ==
    /\ disk \in UNION {[d -> UNION {Bodies(f) : f \in d}] : d \in SUBSET ModuleFiles}
    /\ crawl \in [reference : References, folders : CrawlFolders,
                  folder_index : {0}, attempts : {<<>>}, done : {FALSE}]
    /\ args = [filename |-> <<"a.py">>, built_ins |-> Unread, inverse |-> Unread]
    /\ tree = ("a.py" :> <<Import(crawl.reference)>>)
    /\ files = <<>>
    /\ graph = <<>>
    /\ crawled_imports = {}
    /\ uncrawled = {}
    /\ unsure_nodes = {}
    /\ nxg = NoGraph
    /\ pc = "crawl_import"
    /\ arg_index = 1
    /\ file_index = 0
    /\ current_function = ""
    /\ calls_seen = 0
    /\ last_call = NoCall
    /\ unresolved_names = {}
    /\ resolved_before = FALSE
    /\ collected_after = FALSE
    /\ report = <<>>

\* crawl_import, lines 371-379: the name this attempt imports, and the call
\* with the attempt noted.
CrawlName == ImportedName(crawl.reference, crawl.folders, crawl.folder_index)
Attempted == [crawl EXCEPT !.attempts = Append(@, CrawlName)]

\* crawl_import, lines 386-390: import_module raises ImportError; the next
\* folder_index is tried, or the reference is given up.
CrawlImportError ==
    /\ pc = "crawl_import"
    /\ ~crawl.done
    /\ import_module(CrawlName, disk) = ImportError
    /\ IF crawl.folder_index < Len(crawl.folders)
       THEN /\ crawl' = [Attempted EXCEPT !.folder_index = @ + 1]
            /\ UNCHANGED uncrawled
       ELSE /\ crawl' = [Attempted EXCEPT !.done = TRUE]
            /\ uncrawled' = uncrawled \cup {crawl.reference}
    /\ UNCHANGED <<args, disk, tree, files, graph, crawled_imports, unsure_nodes,
                   nxg, pc, arg_index, file_index, current_function, calls_seen,
                   last_call, unresolved_names, resolved_before, collected_after,
                   report>>

\* crawl_import, lines 391-392: the module found has no __file__.
CrawlAttributeError ==
    /\ pc = "crawl_import"
    /\ ~crawl.done
    /\ import_module(CrawlName, disk) = NoFile
    /\ crawl' = [Attempted EXCEPT !.done = TRUE]
    /\ uncrawled' = uncrawled \cup {crawl.reference}
    /\ UNCHANGED <<args, disk, tree, files, graph, crawled_imports, unsure_nodes,
                   nxg, pc, arg_index, file_index, current_function, calls_seen,
                   last_call, unresolved_names, resolved_before, collected_after,
                   report>>

\* crawl_import, lines 379-385: the module found is parsed and collected by a
\* NodeCreator of depth 1, and the name tried goes into crawled_imports.
CrawlModule ==
    /\ pc = "crawl_import"
    /\ ~crawl.done
    /\ LET imported == import_module(CrawlName, disk)
       IN  /\ imported \notin {ImportError, NoFile}
           /\ LET done == visit(disk[imported], Basename(imported), "", <<>>, 1,
                                Collected(graph, crawled_imports, uncrawled), disk)
              IN  /\ graph' = done.graph
                  /\ crawled_imports' = done.crawled_imports \cup {CrawlName}
                  /\ uncrawled' = done.uncrawled
    /\ crawl' = [Attempted EXCEPT !.done = TRUE]
    /\ UNCHANGED <<args, disk, tree, files, unsure_nodes, nxg, pc, arg_index,
                   file_index, current_function, calls_seen, last_call,
                   unresolved_names, resolved_before, collected_after,
                   report>>

NextCrawl == CrawlImportError \/ CrawlAttributeError \/ CrawlModule

SpecCrawl == InitCrawl /\ [][NextCrawl]_vars

-----------------------------------------------------------------------------
(* output_text: the report, for the graphs a run may end with.  Strings are   *)
(* compared as Python compares them, by their code points; the header lines   *)
(* (printed unless --raw) are left out.                                       *)

\* The code points of the strings the nodes of the report are made of.
CodePoints(str) ==
    CASE str = "" -> <<>>
      [] str = "a.py" -> <<97, 46, 112, 121>>
      [] str = "b.py" -> <<98, 46, 112, 121>>
      [] str = "C" -> <<67>>
      [] str = "Cf" -> <<67, 102>>
      [] str = "f" -> <<102>>
      [] str = "g" -> <<103>>

\* str.__lt__: the first code point that differs decides, a proper prefix is less.
StrLess(a, b) ==
    \E k \in 1..Len(b) :
        /\ \A i \in 1..(k - 1) : i <= Len(a) /\ a[i] = b[i]
        /\ k - 1 <= Len(a)
        /\ (k <= Len(a) => a[k] < b[k])

\* FuncNode.__repr__
repr(n) == n.filename \o ":" \o n.class_name \o "." \o n.name

\* The key with the name of the node alone.
SortKeyByName(n) == CodePoints(n.name)

\* output_text line 132, get_edges_str line 305: the key the_node.get_string(),
\* as code points.
SortKey(n) == CodePoints(n.filename) \o CodePoints(n.class_name) \o CodePoints(n.name)

\* sorted(sq, key=lambda the_node: the_node.get_string()).  sorted() is stable:
\* an element comes behind those of smaller key and those of equal key that
\* were before it in sq.
sorted(sq) ==
    LET key == [i \in 1..Len(sq) |-> SortKey(sq[i])]
        rank == [i \in 1..Len(sq) |->
                    Cardinality({j \in 1..Len(sq) :
                        StrLess(key[j], key[i]) \/ (key[j] = key[i] /\ j <= i)})]
    IN  [p \in 1..Len(sq) |-> sq[CHOOSE i \in 1..Len(sq) : rank[i] = p]]

\* The orders a set may be iterated in, and what sorted() makes of each.
Iterations(set) ==
    {sq \in [1..Cardinality(set) -> set] : \A i, j \in 1..Len(sq) : sq[i] = sq[j] => i = j}
SortedOrders(set) == {sorted(sq) : sq \in Iterations(set)}

\* FuncNode.get_edges_str, for the edges in the order sorted() gave.
RECURSIVE EdgesStr(_)
EdgesStr(edges) ==
    IF edges = <<>> THEN ""
    ELSE "(" \o repr(Head(edges)) \o ") " \o EdgesStr(Tail(edges))

\* One printed line: the node and its edges, with the triples they stand for.
Line(node, edges) ==
    [node |-> Key(node), text |-> repr(node),
     edges |-> [i \in 1..Len(edges) |-> Key(edges[i])], edges_str |-> EdgesStr(edges)]

\* The lines output_text may print for a node.
LinesOf(node, inverse) ==
    {Line(node, edges) : edges \in SortedOrders(get_edges(node, inverse))}

\* The nodes a final graph of the model is made of: three definitions of the
\* requested file a.py, two of which have the same get_string, and a crawled one.
ReportNodes ==
    {FuncNode("a.py", "", "f", 0), FuncNode("a.py", "C", "f", 0),
     FuncNode("a.py", "", "Cf", 0), FuncNode("b.py", "", "g", 1)}

\* Most calls the final graph records.
MaxEdges == 2

\* The graph with the nodes in insertion order and the calls between positions.
LinkedGraph(nodes, calls) ==
    [i \in 1..Len(nodes) |->
        [nodes[i] EXCEPT
            !.dependencies = {Ref(nodes[j]) : j \in {k \in 1..Len(nodes) : <<i, k>> \in calls}},
            !.dependents = {Ref(nodes[j]) : j \in {k \in 1..Len(nodes) : <<k, i>> \in calls}}]]

\* The final graphs: any nodes in any insertion order, with calls made from
\* definitions of the requested file.
FinalGraphs ==
    UNION {UNION {{LinkedGraph(nodes, calls) :
                      calls \in {c \in SUBSET {<<i, j>> \in (1..Len(nodes)) \X (1..Len(nodes)) :
                                                  nodes[i].depth = 0} :
                                    Cardinality(c) <= MaxEdges}} :
                  nodes \in Iterations(chosen)} :
           chosen \in SUBSET ReportNodes}

\* Search.__init__ line 30: process_files has returned.
InitReport ==
    /\ graph \in FinalGraphs
    /\ args \in [filename : {<<"a.py">>}, built_ins : {Unread}, inverse : {{FALSE}, {TRUE}}]
    /\ disk = <<>>
    /\ tree = <<>>
    /\ files = <<"a.py">>
    /\ crawled_imports = {}
    /\ uncrawled = {}
    /\ unsure_nodes = {}
    /\ nxg = get_nx_graph(graph, FALSE)
    /\ pc = "output_text"
    /\ arg_index = 2
    /\ file_index = 1
    /\ current_function = ""
    /\ calls_seen = 0
    /\ last_call = NoCall
    /\ unresolved_names = {}
    /\ resolved_before = FALSE
    /\ collected_after = FALSE
    /\ crawl = NoCrawl
    /\ report = <<>>

\* output_text, lines 130-134: the nodes that are not hidden, sorted, each with
\* its sorted edges.
OutputText ==
    /\ pc = "output_text"
    /\ \E inverse \in args.inverse :
          \E shown \in {SelectSeq(sorted(graph), LAMBDA node : ~is_hidden(node))} :
             \E choice \in {[i \in 1..Len(shown) |-> LinesOf(shown[i], inverse)]} :
                \E lines \in [1..Len(shown) -> UNION {choice[i] : i \in 1..Len(shown)}] :
                   /\ \A i \in 1..Len(shown) : lines[i] \in choice[i]
                   /\ report' = lines
    /\ pc' = "done"
    /\ UNCHANGED <<args, disk, tree, files, graph, crawled_imports, uncrawled,
                   unsure_nodes, nxg, arg_index, file_index, current_function,
                   calls_seen, last_call, unresolved_names, resolved_before,
                   collected_after, crawl>>

NextReport == OutputText

SpecReport == InitReport /\ [][NextReport]_vars

-----------------------------------------------------------------------------
(* Helpers of the properties *)

\* The identity triples of a set of FuncNode objects.
Keys(s) == {Key(e) : e \in s}

\* The positions in the graph of the node with triple k.
Positions(k) == {i \in 1..Len(graph) : Key(graph[i]) = k}

\* The depth the graph holds for triple k (k is in the graph).
DepthOf(k) == graph[CHOOSE i \in 1..Len(graph) : Key(graph[i]) = k].depth

\* A node fabricated by add_edge.
IsPlaceholder(n) ==
    \/ n.filename = "Unknown" /\ n.class_name = "Unknown"
    \/ n.filename = "System" /\ n.class_name = "Builtins"

\* The triples a syntax tree defines: one per class and per function.
RECURSIVE DefinedKeys(_, _, _)
DefinedKeys(stmts, file, current_class) ==
    IF stmts = <<>> THEN {}
    ELSE LET s == Head(stmts)
         IN  (CASE s.kind = "ClassDef" ->
                     {<<file, s.name, "__init__">>} \cup DefinedKeys(s.body, file, s.name)
                [] s.kind = "FunctionDef" ->
                     {<<file, current_class, s.name>>}
                         \cup DefinedKeys(s.body, file, current_class)
                [] OTHER -> {})
             \cup DefinedKeys(Tail(stmts), file, current_class)

\* For the most recent resolved call: the positions of its candidates among the
\* nodes the loop of visit_Call went through, and of those that match the qualifier.
Candidates ==
    {i \in 1..last_call.searched : IsCandidate(graph[i], last_call.dependency)}
Matching == {i \in Candidates : is_identifier(graph[i], last_call.home)}

\* The search of the most recent resolved call, after its first k nodes.
SearchedTo(k) == Search(graph, k, last_call.dependency, last_call.home)

-----------------------------------------------------------------------------
(* The properties *)

\* C1: registration is idempotent on the triple (origin, scope, name): the graph
\* never holds two nodes with one triple, registering a node whose triple is
\* present (at whatever depth) changes nothing, and the edge of a resolved call
\* stands on the one node its caller's triple has.
C1_IdempotentRegistration ==
    /\ \A i \in 1..Len(graph) :
          \A j \in (i + 1)..Len(graph) : Key(graph[i]) # Key(graph[j])
    /\ \A i \in 1..Len(graph), d \in 0..1 :
          add_node(graph, FuncNode(graph[i].filename, graph[i].class_name,
                                   graph[i].name, d)) = graph
    /\ last_call.visited =>
          /\ Cardinality(Positions(last_call.this_node)) = 1
          /\ \A i \in Positions(last_call.this_node) :
                last_call.dependency_node \in Keys(graph[i].dependencies)

\* C1 witness: b.py was collected twice, crawled from a.py and as a requested
\* file, and a node of it holds the edges of two calls, one as caller and one as
\* callee.
C1_Witness ==
    /\ "pkg.b" \in crawled_imports
    /\ Len(files) = 2
    /\ calls_seen = 2
    /\ \E i \in 1..Len(graph) :
          /\ graph[i].filename = "b.py"
          /\ graph[i].dependencies # {}
          /\ graph[i].dependents # {}

\* C2: no call is resolved (no edge, placeholder or unsure entry made) before
\* crawl_files has gone through every requested file, and nothing is collected
\* once a call has been resolved.
C2_PhaseBarrier ==
    /\ resolved_before => arg_index > Len(args.filename) /\ pc # "crawl_files"
    /\ ~collected_after
    /\ arg_index <= Len(args.filename) =>
          /\ unsure_nodes = {}
          /\ \A i \in 1..Len(graph) :
                /\ graph[i].dependencies = {}
                /\ graph[i].dependents = {}
                /\ ~IsPlaceholder(graph[i])

\* C2 witness: a call was resolved in a run that collected two requested files
\* and crawled an import.
C2_Witness ==
    /\ resolved_before
    /\ Len(files) = 2
    /\ crawled_imports # {}
    /\ \E i \in 1..Len(graph) : graph[i].dependencies # {}

\* C3: a call with two or more candidates of which exactly one matches the
\* qualifier adds nothing to unsure_nodes.
C3_OneMatchNoAmbiguity ==
    (last_call.visited /\ Cardinality(Candidates) >= 2 /\ Cardinality(Matching) = 1)
        => ~last_call.unsure

\* C4: once collection is complete, every function and class defined in a
\* requested file is a node of depth 0.
C4_RequestedDepthZero ==
    arg_index > Len(args.filename) =>
        \A n \in 1..Len(files) :
            \A k \in DefinedKeys(tree[files[n]], files[n], "") :
                Positions(k) # {} /\ DepthOf(k) = 0

\* C5: when exactly one candidate matches the qualifier, that node is the callee
\* of the edge recorded, wherever it stands among the candidates.
C5_UniqueMatchSelected ==
    (last_call.visited /\ Cardinality(Matching) = 1) =>
        \A m \in Matching :
            /\ last_call.dependency_node = Key(graph[m])
            /\ \A i \in Positions(last_call.this_node) :
                  Key(graph[m]) \in Keys(graph[i].dependencies)
            /\ last_call.this_node \in Keys(graph[m].dependents)

\* C5 witness: the one matching candidate is not the first candidate the loop met.
C5_Witness ==
    /\ last_call.visited
    /\ Cardinality(Matching) = 1
    /\ \E c \in Candidates : \A m \in Matching : c < m

\* C6: a call with two or more candidates of which not exactly one matches the
\* qualifier is in unsure_nodes, and every step of the search that met a tie
\* (the node and the selected one both match, or both do not) kept the selection.
C6_TieReported ==
    (last_call.visited /\ Cardinality(Candidates) >= 2 /\ Cardinality(Matching) # 1)
        => /\ last_call.unsure
           /\ last_call.site \in unsure_nodes
           /\ \A k \in Candidates :
                 LET before == SearchedTo(k - 1)
                 IN  (/\ before.already_found
                      /\ is_identifier(graph[k], last_call.home)
                           = is_identifier(graph[before.dependency_node],
                                           last_call.home))
                     => SearchedTo(k).dependency_node = before.dependency_node

\* C6 witness: three candidates, two of which match the qualifier.
C6_Witness ==
    /\ last_call.visited
    /\ Cardinality(Candidates) = 3
    /\ Cardinality(Matching) = 2

\* C7: the reduced graph holds only nodes whose depth in the graph is 0, as
\* nodes and as ends of edges.
C7_ReducedGraphDepthZero ==
    nxg.built =>
        /\ \A k \in nxg.nodes : Positions(k) # {} /\ DepthOf(k) = 0
        /\ \A e \in nxg.edges : DepthOf(e[1]) = 0 /\ DepthOf(e[2]) = 0

\* C8: with a.py and b.py both requested, in either order, a call of g in a.py's
\* function f, g being defined in b.py, gives the edge a:f -> b:g (and no other
\* edge from a:f to a node named g), lists a:f among b:g's callers, and makes no
\* placeholder for g.
C8_CrossFileResolution ==
    (/\ last_call.visited
     /\ last_call.this_node = <<"a.py", "", "f">>
     /\ last_call.dependency = "g"
     /\ \E n \in 1..Len(files) :
           files[n] = "b.py" /\ <<"b.py", "", "g">> \in DefinedKeys(tree["b.py"], "b.py", ""))
        => /\ last_call.dependency_node = <<"b.py", "", "g">>
           /\ \A i \in Positions(<<"a.py", "", "f">>) :
                 {k \in Keys(graph[i].dependencies) : k[3] = "g"} = {<<"b.py", "", "g">>}
           /\ \A j \in Positions(<<"b.py", "", "g">>) :
                 <<"a.py", "", "f">> \in Keys(graph[j].dependents)
           /\ Positions(<<"b.py", "", "g">>) # {}
           /\ \A i \in 1..Len(graph) : ~(IsPlaceholder(graph[i]) /\ graph[i].name = "g")

\* C8 witness: a.py was collected before b.py, and f's call of g was resolved.
C8_Witness ==
    /\ files = <<"a.py", "b.py">>
    /\ last_call.visited
    /\ last_call.this_node = <<"a.py", "", "f">>
    /\ last_call.dependency = "g"
    /\ <<"b.py", "", "g">> \in DefinedKeys(tree["b.py"], "b.py", "")

\* C9: the graph holds as many placeholder nodes as there are distinct names that
\* were called with no candidate in the graph; each has depth 1, and a call that
\* resolves to a placeholder is among that placeholder's callers.
C9_PlaceholderPerName ==
    /\ Cardinality({i \in 1..Len(graph) : IsPlaceholder(graph[i])})
          = Cardinality(unresolved_names)
    /\ \A i \in 1..Len(graph) :
          IsPlaceholder(graph[i]) =>
              graph[i].depth = 1 /\ graph[i].name \in unresolved_names
    /\ last_call.visited =>
          \A i \in Positions(last_call.dependency_node) :
              IsPlaceholder(graph[i]) =>
                  last_call.this_node \in Keys(graph[i].dependents)

\* C9 witness: two calls of one undefined name, from two callers, and one
\* placeholder for it.
C9_Witness ==
    /\ calls_seen = 2
    /\ Cardinality(unresolved_names) = 1
    /\ \E i \in 1..Len(graph) :
          IsPlaceholder(graph[i]) /\ Cardinality(graph[i].dependents) = 2

\* The edges of the graph are symmetric and closed: y is among x's callees
\* exactly when x is among y's callers, and every member of an edge set is a node.
EdgesSymmetric ==
    /\ \A i, j \in 1..Len(graph) :
          Key(graph[j]) \in Keys(graph[i].dependencies)
              <=> Key(graph[i]) \in Keys(graph[j].dependents)
    /\ \A i \in 1..Len(graph) :
          \A k \in Keys(graph[i].dependencies) \cup Keys(graph[i].dependents) :
              Positions(k) # {}

\* No step removes a node or an edge.
NothingRemoved ==
    /\ Len(graph') >= Len(graph)
    /\ \A i \in 1..Len(graph) :
          /\ Key(graph'[i]) = Key(graph[i])
          /\ graph'[i].depth = graph[i].depth
          /\ Keys(graph[i].dependencies) \subseteq Keys(graph'[i].dependencies)
          /\ Keys(graph[i].dependents) \subseteq Keys(graph'[i].dependents)

\* C10: in every reachable state the edges are symmetric and closed, and no
\* operation removes a node or an edge.
C10_EdgeSymmetryAndClosure == []EdgesSymmetric /\ [][NothingRemoved]_vars

\* C10 witness: an edge between two distinct nodes, one of them a placeholder.
C10_Witness ==
    \E i, j \in 1..Len(graph) :
        /\ i # j
        /\ IsPlaceholder(graph[j])
        /\ Key(graph[j]) \in Keys(graph[i].dependencies)
        /\ Key(graph[i]) \in Keys(graph[j].dependents)

\* The directory segments of folders, the empty ones left out.
Segments(folders) == SelectSeq(folders, LAMBDA x : x # "")

\* The dotted path made of the last k segments and the imported name.
RECURSIVE DottedPath(_, _, _)
DottedPath(segs, k, reference) ==
    IF k = 0 THEN reference
    ELSE segs[Len(segs) - k + 1] \o "." \o DottedPath(segs, k - 1, reference)

\* The bare name, twice, then the paths of one, two, ... segments: the longest last.
BareFirstOrder(reference, folders) ==
    [n \in 1..(Len(folders) + 1) |->
        DottedPath(Segments(folders), IF n <= 2 THEN 0 ELSE n - 2, reference)]

\* The path of all the segments, then of one segment less, ...: the bare name last.
LongestFirstOrder(reference, folders) ==
    [n \in 1..(Len(Segments(folders)) + 1) |->
        DottedPath(Segments(folders), Len(Segments(folders)) + 1 - n, reference)]

IsPrefix(a, b) == Len(a) <= Len(b) /\ \A i \in 1..Len(a) : a[i] = b[i]

\* C11 (as amended): for an import of a depth-0 file the attempts are the bare
\* name, twice, then the dotted paths of progressively longer suffixes of the
\* directory's segments, the full path last; every attempt before the last one
\* raised ImportError; the first module found ends the attempts: with a file it
\* is collected at depth 1 and the path tried goes into crawled_imports, without
\* one the imported name goes into uncrawled, as it does when every attempt
\* fails.  The outcome is that of crawl_import.
C11_CrawlOrderBareFirst ==
    pc = "crawl_import" =>
        LET order == BareFirstOrder(crawl.reference, crawl.folders)
            n == Len(crawl.attempts)
        IN  /\ IsPrefix(crawl.attempts, order)
            /\ \A i \in 1..n :
                  (i < n \/ ~crawl.done) =>
                      import_module(crawl.attempts[i], disk) = ImportError
            /\ ~crawl.done =>
                  graph = <<>> /\ crawled_imports = {} /\ uncrawled = {}
            /\ crawl.done =>
                  LET imported == import_module(crawl.attempts[n], disk)
                  IN  /\ imported = ImportError =>
                            /\ n = Len(order)
                            /\ uncrawled = {crawl.reference}
                            /\ crawled_imports = {}
                            /\ graph = <<>>
                      /\ imported = NoFile =>
                            /\ uncrawled = {crawl.reference}
                            /\ crawled_imports = {}
                            /\ graph = <<>>
                      /\ imported \notin {ImportError, NoFile} =>
                            /\ crawled_imports = {crawl.attempts[n]}
                            /\ uncrawled = {}
                            /\ \A i \in 1..Len(graph) : graph[i].depth = 1
                            /\ {Key(graph[i]) : i \in 1..Len(graph)}
                                  = DefinedKeys(disk[imported], Basename(imported), "")
                      /\ Collected(graph, crawled_imports, uncrawled)
                            = crawl_import(crawl.reference, crawl.folders, 0, 0,
                                           Collected(<<>>, {}, {}), disk)

\* C11 witness: from top/pkg/ the bare name failed twice and pkg.b was crawled,
\* top.pkg.b being there as well.
C11_Witness ==
    /\ pc = "crawl_import"
    /\ crawl.done
    /\ crawl.folders = <<"top", "pkg", "">>
    /\ crawl.attempts = <<"b", "b", "pkg.b">>
    /\ crawled_imports = {"pkg.b"}
    /\ "top/pkg/b.py" \in DOMAIN disk
    /\ graph # <<>>

\* C11 (as stated): the attempts go from the path of all the directory's segments
\* to shorter ones, the bare name last; the first path that resolves is the one
\* crawled and recorded, and the name is in uncrawled only when no path resolves
\* (a path resolves when it gives a module with a file to collect).
C11_CrawlOrderLongestFirst ==
    (pc = "crawl_import" /\ crawl.done) =>
        LET order == LongestFirstOrder(crawl.reference, crawl.folders)
            resolving == {i \in 1..Len(order) :
                             import_module(order[i], disk) \notin {ImportError, NoFile}}
        IN  IF resolving = {}
            THEN uncrawled = {crawl.reference} /\ crawled_imports = {}
            ELSE LET first == CHOOSE i \in resolving : \A j \in resolving : i <= j
                 IN  /\ crawl.attempts = SubSeq(order, 1, first)
                     /\ crawled_imports = {order[first]}
                     /\ uncrawled = {}

\* The code points of a triple's three strings put together, as get_string does.
StringOf(k) == CodePoints(k[1]) \o CodePoints(k[2]) \o CodePoints(k[3])

\* Triples compared component by component.
TripleLess(k1, k2) ==
    \/ StrLess(CodePoints(k1[1]), CodePoints(k2[1]))
    \/ /\ k1[1] = k2[1]
       /\ \/ StrLess(CodePoints(k1[2]), CodePoints(k2[2]))
          \/ k1[2] = k2[2] /\ StrLess(CodePoints(k1[3]), CodePoints(k2[3]))

\* The report has one line for each node that is not hidden, and the line of a
\* node lists its callers, or its callees when the inverse option is set.
ReportComplete ==
    /\ Len(report) = Cardinality({i \in 1..Len(graph) : ~is_hidden(graph[i])})
    /\ \A i \in 1..Len(graph) :
          ~is_hidden(graph[i]) => \E l \in 1..Len(report) : report[l].node = Key(graph[i])
    /\ \A l \in 1..Len(report) :
          \A i \in Positions(report[l].node) :
              /\ ~is_hidden(graph[i])
              /\ report[l].text = repr(graph[i])
              /\ LET edges == Keys(get_edges(graph[i], TRUE \in args.inverse))
                 IN  /\ Len(report[l].edges) = Cardinality(edges)
                     /\ {report[l].edges[e] : e \in 1..Len(report[l].edges)} = edges

\* C12 (as amended): the report lists the nodes that are not hidden in ascending
\* order of the string origin + scope + name (the three put together with
\* nothing between them, compared by code point), nodes with the same string in
\* the order they entered the graph; each node's list of callers (or callees)
\* is in ascending order of that string as well.
C12_ReportStringOrder ==
    pc = "done" =>
        /\ ReportComplete
        /\ \A i, j \in 1..Len(report) :
              i < j =>
                  /\ ~StrLess(StringOf(report[j].node), StringOf(report[i].node))
                  /\ StringOf(report[i].node) = StringOf(report[j].node) =>
                        \A m \in Positions(report[i].node), n \in Positions(report[j].node) :
                            m < n
        /\ \A l \in 1..Len(report) :
              \A i, j \in 1..Len(report[l].edges) :
                  i < j => ~StrLess(StringOf(report[l].edges[j]),
                                    StringOf(report[l].edges[i]))

\* C12 witness: a report of three lines, the method C.f before the function f,
\* the function Cf first, a hidden node left out, and f listed with two callers.
C12_Witness ==
    /\ pc = "done"
    /\ Len(graph) = 4
    /\ Len(report) = 3
    /\ report[1].node = <<"a.py", "", "Cf">>
    /\ report[2].node = <<"a.py", "C", "f">>
    /\ report[3].node = <<"a.py", "", "f">>
    /\ Len(report[3].edges) = 2

\* C12 (as stated): the lines of the report are in ascending order of the triple
\* (origin, scope, name) compared component by component, and so is the list of
\* callers (or callees) of each line.
C12_ReportTripleOrder ==
    pc = "done" =>
        /\ ReportComplete
        /\ \A i, j \in 1..Len(report) :
              i < j => TripleLess(report[i].node, report[j].node)
        /\ \A l \in 1..Len(report) :
              \A i, j \in 1..Len(report[l].edges) :
                  i < j => TripleLess(report[l].edges[i], report[l].edges[j])

====
